---- MODULE Spec2Model ----
(***************************************************************************)
(* Model of the Node.js prompt segment of starship, src/modules/nodejs.rs: *)
(* the relevance probe, the runtime version command, the manifest read,    *)
(* the engines compatibility check and the rendering of the segment.       *)
(*                                                                         *)
(* Text is modelled as a sequence of one-character strings, so that the    *)
(* regular expression, the trimming and the two semver parsers are         *)
(* computed character by character.                                        *)
(***************************************************************************)
EXTENDS Integers, Sequences, FiniteSets, TLC

\* ------------------------------------------------------------------ bounds
\* Largest number of entries of the scanned directory.
MaxEntries == 3
\* Largest length of the exhaustively enumerated version strings.
MaxLen == 6

\* ------------------------------------------------------------------ values
None == [some |-> FALSE, val |-> <<>>]
Some(v) == [some |-> TRUE, val |-> v]

AsciiDigits == {"0", "1", "2", "3", "4", "5", "6", "7", "8", "9"}
\* The regex crate's \d is Unicode aware: it also matches the decimal digits of
\* other scripts. "u0663" stands for one such character (ARABIC-INDIC DIGIT THREE).
RegexDigits == AsciiDigits \cup {"u0663"}
Whitespace == {" ", "\n", "\t"}

DigitVal(c) ==
    CASE c = "0" -> 0 [] c = "1" -> 1 [] c = "2" -> 2 [] c = "3" -> 3
      [] c = "4" -> 4 [] c = "5" -> 5 [] c = "6" -> 6 [] c = "7" -> 7
      [] c = "8" -> 8 [] c = "9" -> 9

\* str::trim: the text without its leading and trailing whitespace.
RECURSIVE TrimStart(_)
TrimStart(s) ==
    IF s # <<>> /\ Head(s) \in Whitespace THEN TrimStart(Tail(s)) ELSE s

RECURSIVE TrimEnd(_)
TrimEnd(s) ==
    IF s # <<>> /\ s[Len(s)] \in Whitespace
    THEN TrimEnd(SubSeq(s, 1, Len(s) - 1))
    ELSE s

trim(s) == TrimEnd(TrimStart(s))

\* ------------------------------------------------- Regex \d+\.\d+\.\d+
\* The index after the longest run of regex digits of s that starts at i.
RECURSIVE RunEnd(_, _)
RunEnd(s, i) ==
    IF i <= Len(s) /\ s[i] \in RegexDigits THEN RunEnd(s, i + 1) ELSE i

\* The index after the match of \d+\.\d+\.\d+ that starts at i, 0 when there is
\* none. Every \d+ is greedy, and a shorter run is followed by a digit, never
\* by the dot, so the longest runs decide.
MatchEnd(s, i) ==
    LET a == RunEnd(s, i) IN
    IF a = i \/ a > Len(s) \/ s[a] # "." THEN 0
    ELSE LET b == RunEnd(s, a + 1) IN
         IF b = a + 1 \/ b > Len(s) \/ s[b] # "." THEN 0
         ELSE LET c == RunEnd(s, b + 1) IN
              IF c = b + 1 THEN 0 ELSE c

\* A faulty variant, to test the properties: the last match instead of the leftmost one.
captures_last(s) ==
    LET starts == {i \in 1..Len(s) : MatchEnd(s, i) # 0 /\ (i = 1 \/ s[i - 1] \notin RegexDigits)} IN
    IF starts = {} THEN None
    ELSE LET i == CHOOSE x \in starts : \A y \in starts : x >= y
         IN Some(SubSeq(s, i, MatchEnd(s, i) - 1))

\* Regex::captures(..).get(0): the leftmost match, None when nothing matches.
captures(s) ==
    LET starts == {i \in 1..Len(s) : MatchEnd(s, i) # 0} IN
    IF starts = {} THEN None
    ELSE LET i == CHOOSE x \in starts : \A y \in starts : x <= y
         IN Some(SubSeq(s, i, MatchEnd(s, i) - 1))

\* ------------------------------------------------------- semver parsing
NoNumber == [ok |-> FALSE, val |-> 0, next |-> 0]

RECURSIVE Decimal(_, _, _, _)
\* The value of the ASCII digits s[i..j-1] after acc.
Decimal(s, i, j, acc) ==
    IF i >= j THEN acc ELSE Decimal(s, i + 1, j, acc * 10 + DigitVal(s[i]))

RECURSIVE AsciiRunEnd(_, _)
AsciiRunEnd(s, i) ==
    IF i <= Len(s) /\ s[i] \in AsciiDigits THEN AsciiRunEnd(s, i + 1) ELSE i

\* semver's numeric identifier at s[i]: a lone "0", or else a run of ASCII
\* digits. A leading zero is read as the number 0 and leaves the rest of the
\* run behind, which the caller then rejects.
numeric_identifier(s, i) ==
    IF i > Len(s) THEN NoNumber
    ELSE IF s[i] = "0" THEN [ok |-> TRUE, val |-> 0, next |-> i + 1]
    ELSE LET e == AsciiRunEnd(s, i) IN
         IF e = i THEN NoNumber
         ELSE [ok |-> TRUE, val |-> Decimal(s, i, e, 0), next |-> e]

NoVersion == [ok |-> FALSE, val |-> <<0, 0, 0>>, next |-> 0]

\* MAJOR.MINOR.PATCH at s[i]: the version and the index after it.
VersionAt(s, i) ==
    LET ma == numeric_identifier(s, i) IN
    IF ~ma.ok \/ ma.next > Len(s) \/ s[ma.next] # "." THEN NoVersion
    ELSE LET mi == numeric_identifier(s, ma.next + 1) IN
         IF ~mi.ok \/ mi.next > Len(s) \/ s[mi.next] # "." THEN NoVersion
         ELSE LET pa == numeric_identifier(s, mi.next + 1) IN
              IF ~pa.ok THEN NoVersion
              ELSE [ok |-> TRUE, val |-> <<ma.val, mi.val, pa.val>>,
                    next |-> pa.next]

\* Version::parse on text made of digits and dots (what the regex yields):
\* the whole text must be one MAJOR.MINOR.PATCH.
Version_parse(text) ==
    LET s == trim(text)
        v == VersionAt(s, 1) IN
    IF v.ok /\ v.next = Len(s) + 1 THEN v ELSE NoVersion

\* ------------------------------------------------------ VersionReq::parse
\* A comparator: its operator and the version it compares with.
Ops == <<">=", "<=", ">", "<", "=", "^", "~">>

\* Whether the characters of word stand in s at i.
StartsAt(s, i, word) ==
    /\ i + Len(word) - 1 <= Len(s)
    /\ \A k \in 1..Len(word) : s[i + k - 1] = word[k]

OpText(op) ==
    CASE op = ">=" -> <<">", "=">> [] op = "<=" -> <<"<", "=">>
      [] op = ">" -> <<">">> [] op = "<" -> <<"<">> [] op = "=" -> <<"=">>
      [] op = "^" -> <<"^">> [] op = "~" -> <<"~">>

\* The operator that starts s (the two-character ones first), and the index
\* after it; without an operator the comparator is a caret one.
parse_op(s) ==
    LET found == {k \in 1..Len(Ops) : StartsAt(s, 1, OpText(Ops[k]))} IN
    IF found = {} THEN [op |-> "^", next |-> 1]
    ELSE LET k == CHOOSE x \in found : \A y \in found : x <= y
         IN [op |-> Ops[k], next |-> 1 + Len(OpText(Ops[k]))]

NoPredicate == [ok |-> FALSE, op |-> "", ver |-> <<0, 0, 0>>]

\* One comparator: operator, optional blanks, MAJOR.MINOR.PATCH, nothing else.
\* (Partial versions and wildcard components are not among the inputs.)
parse_predicate(text) ==
    LET s == trim(text)
        o == parse_op(s)
        rest == TrimStart(SubSeq(s, o.next, Len(s)))
        v == VersionAt(rest, 1) IN
    IF v.ok /\ v.next = Len(rest) + 1
    THEN [ok |-> TRUE, op |-> o.op, ver |-> v.val]
    ELSE NoPredicate

\* The comma-separated pieces of s.
RECURSIVE split_comma(_, _)
split_comma(s, piece) ==
    IF s = <<>> THEN <<piece>>
    ELSE IF Head(s) = "," THEN <<piece>> \o split_comma(Tail(s), <<>>)
    ELSE split_comma(Tail(s), Append(piece, Head(s)))

NoRange == [ok |-> FALSE, val |-> <<>>]

\* VersionReq::parse: "" and "*" are the range that matches everything, and
\* any comparator that does not parse makes the whole range an error.
VersionReq_parse(text) ==
    LET s == trim(text) IN
    IF s = <<>> \/ s = <<"*">> THEN [ok |-> TRUE, val |-> <<>>]
    ELSE LET pieces == split_comma(s, <<>>)
             preds == [k \in 1..Len(pieces) |-> parse_predicate(pieces[k])] IN
         IF \A k \in 1..Len(preds) : preds[k].ok
         THEN [ok |-> TRUE, val |-> preds]
         ELSE NoRange

\* ------------------------------------------------------ VersionReq::matches
\* a < b in the order of versions: major, then minor, then patch.
VersionLess(a, b) ==
    \/ a[1] < b[1]
    \/ a[1] = b[1] /\ a[2] < b[2]
    \/ a[1] = b[1] /\ a[2] = b[2] /\ a[3] < b[3]

predicate_matches(p, v) ==
    CASE p.op = "=" -> v = p.ver
      [] p.op = ">" -> VersionLess(p.ver, v)
      [] p.op = ">=" -> ~VersionLess(v, p.ver)
      [] p.op = "<" -> VersionLess(v, p.ver)
      [] p.op = "<=" -> ~VersionLess(p.ver, v)
      [] p.op = "~" -> v[1] = p.ver[1] /\ v[2] = p.ver[2] /\ v[3] >= p.ver[3]
      [] p.op = "^" ->
            IF p.ver[1] > 0
            THEN v[1] = p.ver[1] /\ ~VersionLess(v, p.ver)
            ELSE IF p.ver[2] > 0
            THEN v[1] = 0 /\ v[2] = p.ver[2] /\ v[3] >= p.ver[3]
            ELSE v = p.ver

\* Every comparator of the range holds of v.
matches(r, v) == \A k \in 1..Len(r) : predicate_matches(r[k], v)

\* ------------------------------------------------ check_engines_version
Returned(b) == [panic |-> FALSE, ret |-> b]
Panicked == [panic |-> TRUE, ret |-> FALSE]

\* A faulty variant, to test the properties: a constraint that does not parse counts as violated.
check_engines_version_fail_closed(version, engines) ==
    IF ~engines.some THEN Returned(TRUE)
    ELSE LET r == VersionReq_parse(engines.val) IN
         IF ~r.ok THEN Returned(FALSE)
         ELSE LET found == captures(version) IN
              IF ~found.some THEN Panicked
              ELSE LET v == Version_parse(found.val) IN
                   IF ~v.ok THEN Returned(TRUE)
                   ELSE Returned(matches(r.val, v.val))

\* fn check_engines_version: the boolean it returns, or the panic of unwrap()
\* on the None of a version text the regex does not match.
check_engines_version(version, engines) ==
    IF ~engines.some THEN Returned(TRUE)
    ELSE LET r == VersionReq_parse(engines.val) IN
         IF ~r.ok THEN Returned(TRUE)
         ELSE LET found == captures(version) IN
              IF ~found.some THEN Panicked
              ELSE LET v == Version_parse(found.val) IN
                   IF ~v.ok THEN Returned(TRUE)
                   ELSE Returned(matches(r.val, v.val))

\* --------------------------------------------------------- get_engines_version
\* A JSON value: its type, its text when a string, its members when an object.
JNull == [t |-> "null", s |-> <<>>, members |-> <<>>]
JNumber == [t |-> "number", s |-> <<>>, members |-> <<>>]
JArray == [t |-> "array", s |-> <<>>, members |-> <<>>]
JString(text) == [t |-> "string", s |-> text, members |-> <<>>]
JObject(members) == [t |-> "object", s |-> <<>>, members |-> members]
Member(key, value) == [key |-> key, value |-> value]

\* serde_json Value::get(key): the member of an object, None for a missing key
\* and for every value that is not an object.
json_get(value, key) ==
    LET at == {k \in 1..Len(value.members) : value.members[k].key = key} IN
    IF value.t = "object" /\ at # {}
    THEN Some(value.members[CHOOSE k \in at : TRUE].value)
    ELSE None

\* Value::as_str: the text of a string, None for every other value.
as_str(value) == IF value.t = "string" THEN Some(value.s) ELSE None

\* What utils::read_file finds at package.json: no readable file, or its text,
\* which is JSON (carried as the value it denotes) or not.
NoFile == [readable |-> FALSE, json |-> FALSE, value |-> JNull]
NotJson == [readable |-> TRUE, json |-> FALSE, value |-> JNull]
JsonFile(v) == [readable |-> TRUE, json |-> TRUE, value |-> v]

\* A faulty variant of line 79, to test the properties: the text of "engines" itself taken when it is a string.
get_engines_version_engines_text(file) ==
    IF ~file.readable THEN None
    ELSE IF ~file.json THEN None
    ELSE LET engines == json_get(file.value, "engines") IN
         IF ~engines.some THEN None
         ELSE IF as_str(engines.val).some THEN as_str(engines.val)
         ELSE LET node == json_get(engines.val, "node") IN
              IF ~node.some THEN None
              ELSE LET raw_version == as_str(node.val) IN
                   IF ~raw_version.some THEN None
                   ELSE Some(raw_version.val)

\* fn get_engines_version: every ? returns None.
get_engines_version(file) ==
    IF ~file.readable THEN None
    ELSE IF ~file.json THEN None
    ELSE LET engines == json_get(file.value, "engines") IN
         IF ~engines.some THEN None
         ELSE LET node == json_get(engines.val, "node") IN
              IF ~node.some THEN None
              ELSE LET raw_version == as_str(node.val) IN
                   IF ~raw_version.some THEN None
                   ELSE Some(raw_version.val)

\* ------------------------------------------------------------ the directory
EntryNames ==
    {"package.json", ".node-version", "index.js", "index.mjs", "index.cjs",
     "index.ts", "node_modules", "esy.lock", "README.md"}
Kinds == {"file", "dir"}

\* The extension of an entry name, "" when it has none (a dot file has none).
Extension(name) ==
    CASE name = "package.json" -> "json" [] name = "index.js" -> "js"
      [] name = "index.mjs" -> "mjs" [] name = "index.cjs" -> "cjs"
      [] name = "index.ts" -> "ts" [] name = "esy.lock" -> "lock"
      [] name = "README.md" -> "md" [] OTHER -> ""

\* A directory: at most MaxEntries entries, no name twice.
Dirs ==
    {d \in SUBSET [name : EntryNames, kind : Kinds] :
        /\ Cardinality(d) <= MaxEntries
        /\ \A e, f \in d : e.name = f.name => e = f}

\* ScanDir::is_match: some regular file bears one of the names, some regular
\* file has one of the extensions, or some folder bears one of the folder names.
is_match(d, files, extensions, folders) ==
    \/ \E e \in d : e.kind = "file" /\ e.name \in files
    \/ \E e \in d : e.kind = "file" /\ Extension(e.name) \in extensions
    \/ \E e \in d : e.kind = "dir" /\ e.name \in folders

\* ------------------------------------------------------------ the formatter
\* A format element: literal text, a variable, or a group [format](style).
Text(t) == [type |-> "text", name |-> "", text |-> t, format |-> <<>>, style |-> <<>>]
Var(n) == [type |-> "var", name |-> n, text |-> <<>>, format |-> <<>>, style |-> <<>>]
Group(f, st) == [type |-> "group", name |-> "", text |-> <<>>, format |-> f, style |-> st]

\* NodejsConfig: the format (its syntax right or not, and its elements), the
\* symbol and the two styles.
Via == <<"v", "i", "a", " ">>
Blank == <<" ">>
Symbol == <<"N", " ">>
FormatDefault ==
    [ok |-> TRUE,
     elements |-> <<Text(Via), Group(<<Var("symbol"), Var("version")>>, <<Var("style")>>), Text(Blank)>>]
FormatPlain == [ok |-> TRUE, elements |-> <<Var("symbol"), Var("version")>>]
FormatLiteralStyle ==
    [ok |-> TRUE, elements |-> <<Group(<<Var("version")>>, <<Text("bold blue")>>), Var("symbol")>>]
FormatUnknownVar ==
    [ok |-> TRUE,
     elements |-> <<Text(Via), Group(<<Var("symbol"), Var("node")>>, <<Var("style")>>)>>]
FormatUnknownStyle ==
    [ok |-> TRUE, elements |-> <<Group(<<Var("version")>>, <<Var("colour")>>)>>]
FormatSyntaxError == [ok |-> FALSE, elements |-> <<>>]
Formats ==
    {FormatDefault, FormatPlain, FormatLiteralStyle, FormatUnknownVar,
     FormatUnknownStyle, FormatSyntaxError}

Configs ==
    {[format |-> f, symbol |-> Symbol, style |-> "bold green",
      not_capable_style |-> "bold red"] : f \in Formats}
    \cup {[format |-> FormatDefault, symbol |-> Symbol, style |-> "cyan",
           not_capable_style |-> "dimmed yellow"]}
NoConfig ==
    [format |-> FormatSyntaxError, symbol |-> <<>>, style |-> "",
     not_capable_style |-> ""]

\* A faulty variant of lines 49-55, to test the properties: the two styles swapped.
map_style_swapped(variable, cfg, in_range) ==
    IF variable = "style"
    THEN [some |-> TRUE, val |-> IF in_range THEN cfg.not_capable_style ELSE cfg.style]
    ELSE [some |-> FALSE, val |-> ""]

\* The closures of fn module: map_meta, map_style and map.
map_meta(var, cfg) == IF var = "symbol" THEN Some(cfg.symbol) ELSE None

map_style(variable, cfg, in_range) ==
    IF variable = "style"
    THEN [some |-> TRUE, val |-> IF in_range THEN cfg.style ELSE cfg.not_capable_style]
    ELSE [some |-> FALSE, val |-> ""]

map(variable, version) ==
    IF variable = "version" THEN Some(trim(version)) ELSE None

\* The binding of a variable of the text: a meta variable, else a variable.
bind_var(n, cfg, version) ==
    IF map_meta(n, cfg).some THEN map_meta(n, cfg) ELSE map(n, version)

\* The variables of a sequence of elements that no closure binds.
unbound_vars(elements, cfg, version) ==
    {k \in 1..Len(elements) :
        elements[k].type = "var" /\ ~bind_var(elements[k].name, cfg, version).some}

unbound_styles(style, cfg, in_range) ==
    {k \in 1..Len(style) :
        style[k].type = "var" /\ ~map_style(style[k].name, cfg, in_range).some}

\* The style of a group: its literal parts and the bindings of its variables.
render_style(style, cfg, in_range) ==
    [k \in 1..Len(style) |->
        IF style[k].type = "var"
        THEN [var |-> style[k].name, value |-> map_style(style[k].name, cfg, in_range).val]
        ELSE [var |-> "", value |-> style[k].text]]

\* The segments of a sequence of texts and variables under a style.
render_flat(elements, style, cfg, version) ==
    [k \in 1..Len(elements) |->
        IF elements[k].type = "var"
        THEN [var |-> elements[k].name,
              value |-> bind_var(elements[k].name, cfg, version).val,
              style |-> style]
        ELSE [var |-> "", value |-> elements[k].text, style |-> style]]

RECURSIVE render_all(_, _, _, _)
render_all(elements, cfg, version, in_range) ==
    IF elements = <<>> THEN <<>>
    ELSE LET e == Head(elements)
             here == IF e.type = "group"
                     THEN render_flat(e.format, render_style(e.style, cfg, in_range),
                                      cfg, version)
                     ELSE render_flat(<<e>>, <<>>, cfg, version)
         IN here \o render_all(Tail(elements), cfg, version, in_range)

ParseError == [ok |-> FALSE, segments |-> <<>>]

\* StringFormatter::new(format).and_then(.. parse(None)): an error for a format
\* of wrong syntax and for a variable that no closure binds, else the segments.
format_parse(cfg, version, in_range) ==
    LET els == cfg.format.elements IN
    IF ~cfg.format.ok THEN ParseError
    ELSE IF \/ unbound_vars(els, cfg, version) # {}
            \/ \E k \in 1..Len(els) :
                 /\ els[k].type = "group"
                 /\ \/ unbound_vars(els[k].format, cfg, version) # {}
                    \/ unbound_styles(els[k].style, cfg, in_range) # {}
    THEN ParseError
    ELSE [ok |-> TRUE, segments |-> render_all(els, cfg, version, in_range)]

\* ------------------------------------------------------------------ inputs
\* A faulty variant of line 24, to test the properties: the "ts" extension left out.
JsExtensions_without_ts == {"js", "mjs", "cjs"}

\* The names the two scans of fn module look for.
JsFiles == {"package.json", ".node-version"}
JsExtensions == {"js", "mjs", "cjs", "ts"}
JsFolders == {"node_modules"}
EsyFolders == {"esy.lock"}

\* Declared constraints, as the text of engines.node.
ReqGe12 == <<">", "=", "1", "2", ".", "0", ".", "0">>
ReqLt12 == <<"<", "1", "2", ".", "0", ".", "0">>
ReqGe1 == <<">", "=", "1", ".", "0", ".", "0">>
ReqLt1 == <<"<", "1", ".", "0", ".", "0">>
ReqBetween == <<">", "=", "0", ".", "1", ".", "0", ",", " ", "<", "1", ".", "0", ".", "0">>
ReqCaret == <<"^", "1", ".", "0", ".", "0">>
ReqTilde == <<"~", "1", ".", "0", ".", "0">>
ReqExact == <<"=", "1", ".", "0", ".", "1">>
ReqStar == <<"*">>
ReqEmpty == <<>>
ReqWord == <<"l", "a", "t", "e", "s", "t">>
ReqNoVersion == <<">", "=">>
ParseableReqs ==
    {ReqGe12, ReqLt12, ReqGe1, ReqLt1, ReqBetween, ReqCaret, ReqTilde, ReqExact,
     ReqStar, ReqEmpty}
MalformedReqs == {ReqWord, ReqNoVersion}

\* What package.json holds when it is a regular file.
Manifests ==
    {NotJson,
     JsonFile(JArray),
     JsonFile(JObject(<<>>)),
     JsonFile(JObject(<<Member("engines", JString(ReqGe12))>>)),
     JsonFile(JObject(<<Member("engines", JObject(<<>>))>>)),
     JsonFile(JObject(<<Member("engines", JObject(<<Member("node", JNumber)>>))>>)),
     JsonFile(JObject(<<Member("engines", JObject(<<Member("node", JNull)>>))>>)),
     JsonFile(JObject(<<Member("engines", JObject(<<Member("node", JString(ReqGe12))>>))>>)),
     JsonFile(JObject(<<Member("engines", JObject(<<Member("node", JString(ReqLt12))>>))>>)),
     JsonFile(JObject(<<Member("engines", JObject(<<Member("node", JString(ReqWord))>>))>>))}

\* What `node --version` prints when it succeeds.
OutV12 == <<"v", "1", "2", ".", "0", ".", "0", "\n">>
OutV8 == <<" ", "v", "8", ".", "1", "1", ".", "3", "\n">>
OutNoTriple == <<"v", "1", "2", "\n">>
NodeOutputs == {OutV12, OutV8, OutNoTriple}

\* Version texts for the calls of check_engines_version: every text of at most
\* MaxLen characters over a small alphabet, and some longer ones.
Alphabet == {"0", "1", ".", "v"}
ShortTexts == UNION {[1..n -> Alphabet] : n \in 0..MaxLen}
LongTexts ==
    {OutV12, OutV8, OutNoTriple,
     <<"v", "1", "2", ".", "0", ".", "0", " ", "1", ".", "0", ".", "0">>,
     <<"n", "o", "d", "e", " ", "0", ".", "9", ".", "9", " ", "(", "v", "1", "2", ".", "0", ".", "0", ")">>,
     <<"0", "1", ".", "0", ".", "0", " ", "1", "2", ".", "0", ".", "0">>,
     <<"u0663", "1", ".", "0", ".", "0">>,
     <<"u0663", ".", "0", ".", "0", " ", "1", ".", "0", ".", "0">>,
     <<"1", ".", "0", ".", "u0663">>}
VersionTexts == ShortTexts \cup LongTexts

\* ------------------------------------------------------------------- state
VARIABLES
    dir,               \* the entries of context.current_dir
    manifest,          \* what reading package.json in it gives
    pc,                \* the position in fn module
    is_js_project,     \* line 21
    is_esy_project,    \* line 28
    config,            \* line 38
    nodejs_version,    \* line 39
    engines_version,   \* line 40
    in_engines_range,  \* line 41
    parsed,            \* line 42
    result,            \* what fn module returns: None or Some(module)
    trace,             \* the effects of the evaluation so far, in order
    call               \* a direct call of check_engines_version

mvars ==
    <<dir, manifest, pc, is_js_project, is_esy_project, config, nodejs_version,
      engines_version, in_engines_range, parsed, result, trace>>
vars == <<mvars, call>>

NoModule == [some |-> FALSE, segments |-> <<>>]
SomeModule(segments) == [some |-> TRUE, segments |-> segments]

NoCall ==
    [state |-> "idle", version |-> <<>>, engines |-> None, out |-> Returned(FALSE)]

HasManifestFile(d) == [name |-> "package.json", kind |-> "file"] \in d

Init ==
    /\ dir \in Dirs
    /\ manifest \in IF HasManifestFile(dir) THEN Manifests ELSE {NoFile}
    /\ pc = "scan_js"
    /\ is_js_project = FALSE
    /\ is_esy_project = FALSE
    /\ config = NoConfig
    /\ nodejs_version = <<>>
    /\ engines_version = None
    /\ in_engines_range = FALSE
    /\ parsed = ParseError
    /\ result = NoModule
    /\ trace = <<>>
    /\ call = NoCall

\* `return None` (also what every ? does on None).
ReturnNone ==
    /\ pc' = "done"
    /\ result' = NoModule

\* Lines 21-26: the scan for the markers; try_begin_scan()? returns None from
\* fn module when the directory cannot be scanned.
ScanJs ==
    /\ pc = "scan_js"
    /\ \E available \in BOOLEAN :
        IF available
        THEN /\ is_js_project' = is_match(dir, JsFiles, JsExtensions, JsFolders)
             /\ trace' = Append(trace, "scan")
             /\ pc' = "scan_esy"
             /\ UNCHANGED result
        ELSE /\ trace' = Append(trace, "scan_unavailable")
             /\ ReturnNone
             /\ UNCHANGED is_js_project
    /\ UNCHANGED <<dir, manifest, is_esy_project, config, nodejs_version,
                   engines_version, in_engines_range, parsed, call>>

\* Lines 28-31: the scan for the esy.lock folder.
ScanEsy ==
    /\ pc = "scan_esy"
    /\ \E available \in BOOLEAN :
        IF available
        THEN /\ is_esy_project' = is_match(dir, {}, {}, EsyFolders)
             /\ trace' = Append(trace, "scan")
             /\ pc' = "probe"
             /\ UNCHANGED result
        ELSE /\ trace' = Append(trace, "scan_unavailable")
             /\ ReturnNone
             /\ UNCHANGED is_esy_project
    /\ UNCHANGED <<dir, manifest, is_js_project, config, nodejs_version,
                   engines_version, in_engines_range, parsed, call>>

\* Faulty variants of line 33, to test the properties: the esy.lock test forgotten; the marker test forgotten.
not_relevant_ignores_esy(js, esy) == ~js
not_relevant_ignores_markers(js, esy) == esy

\* Line 33: the condition under which fn module gives up after the scans.
not_relevant(js, esy) == ~js \/ esy

\* Lines 33-38: the probe's verdict, then new_module and the configuration.
Probe ==
    /\ pc = "probe"
    /\ IF not_relevant(is_js_project, is_esy_project)
       THEN /\ ReturnNone
            /\ UNCHANGED config
       ELSE /\ config' \in Configs
            /\ pc' = "exec"
            /\ UNCHANGED result
    /\ UNCHANGED <<dir, manifest, is_js_project, is_esy_project, nodejs_version,
                   engines_version, in_engines_range, parsed, trace, call>>

\* A faulty variant of line 39, to test the properties: a failed command read as an empty output (unwrap_or_default).
ExecCmd_continues_on_failure ==
    /\ pc = "exec"
    /\ \/ /\ trace' = Append(trace, "exec_failed")
          /\ nodejs_version' = <<>>
       \/ /\ trace' = Append(trace, "exec")
          /\ nodejs_version' \in NodeOutputs
    /\ pc' = "engines"
    /\ UNCHANGED <<dir, manifest, is_js_project, is_esy_project, config,
                   engines_version, in_engines_range, parsed, result, call>>

\* Line 39: utils::exec_cmd("node", ["--version"])?: its standard output, or
\* None from fn module when the command fails.
ExecCmd ==
    /\ pc = "exec"
    /\ \/ /\ trace' = Append(trace, "exec_failed")
          /\ ReturnNone
          /\ UNCHANGED nodejs_version
       \/ /\ trace' = Append(trace, "exec")
          /\ nodejs_version' \in NodeOutputs
          /\ pc' = "engines"
          /\ UNCHANGED result
    /\ UNCHANGED <<dir, manifest, is_js_project, is_esy_project, config,
                   engines_version, in_engines_range, parsed, call>>

\* Line 40.
GetEngines ==
    /\ pc = "engines"
    /\ engines_version' = get_engines_version(manifest)
    /\ trace' = Append(trace, "read_manifest")
    /\ pc' = "check"
    /\ UNCHANGED <<dir, manifest, is_js_project, is_esy_project, config,
                   nodejs_version, in_engines_range, parsed, result, call>>

\* Line 41: the compatibility flag, or the panic of check_engines_version.
CheckEngines ==
    /\ pc = "check"
    /\ LET out == check_engines_version(nodejs_version, engines_version) IN
        IF out.panic
        THEN /\ pc' = "panic"
             /\ UNCHANGED in_engines_range
        ELSE /\ in_engines_range' = out.ret
             /\ pc' = "format"
    /\ trace' = Append(trace, "check")
    /\ UNCHANGED <<dir, manifest, is_js_project, is_esy_project, config,
                   nodejs_version, engines_version, parsed, result, call>>

\* Lines 42-63.
Format ==
    /\ pc = "format"
    /\ parsed' = format_parse(config, nodejs_version, in_engines_range)
    /\ trace' = Append(trace, "render")
    /\ pc' = "segments"
    /\ UNCHANGED <<dir, manifest, is_js_project, is_esy_project, config,
                   nodejs_version, engines_version, in_engines_range, result, call>>

\* A faulty variant of lines 65-71, to test the properties: the module returned with what was rendered, error or not.
module_result_ignores_error(p) == [some |-> TRUE, segments |-> p.segments]

\* Lines 65-73: what fn module returns for the result of the formatter.
module_result(p) == IF p.ok THEN SomeModule(p.segments) ELSE NoModule

\* Lines 65-73: the segments are set and the module returned, or the error is
\* logged and None returned.
SetSegments ==
    /\ pc = "segments"
    /\ result' = module_result(parsed)
    /\ trace' = IF parsed.ok THEN trace ELSE Append(trace, "warn")
    /\ pc' = "done"
    /\ UNCHANGED <<dir, manifest, is_js_project, is_esy_project, config,
                   nodejs_version, engines_version, in_engines_range, parsed, call>>

Next ==
    \/ ScanJs
    \/ ScanEsy
    \/ Probe
    \/ ExecCmd
    \/ GetEngines
    \/ CheckEngines
    \/ Format
    \/ SetSegments

Spec == Init /\ [][Next]_vars

\* ------------------------------------- check_engines_version on its own
InitCall ==
    /\ dir = {}
    /\ manifest = NoFile
    /\ pc = "idle"
    /\ is_js_project = FALSE
    /\ is_esy_project = FALSE
    /\ config = NoConfig
    /\ nodejs_version = <<>>
    /\ engines_version = None
    /\ in_engines_range = FALSE
    /\ parsed = ParseError
    /\ result = NoModule
    /\ trace = <<>>
    /\ \E v \in VersionTexts :
       \E e \in {None} \cup {Some(c) : c \in ParseableReqs \cup MalformedReqs} :
          call = [state |-> "called", version |-> v, engines |-> e,
                  out |-> Returned(FALSE)]

CallCheck ==
    /\ call.state = "called"
    /\ call' = [call EXCEPT !.state = "ended",
                            !.out = check_engines_version(call.version, call.engines)]
    /\ UNCHANGED mvars

NextCall == CallCheck

SpecCall == InitCall /\ [][NextCall]_vars

\* ============================================================ properties
\* What the properties speak of, stated without the operators of the code.
HasEsyLock(d) == [name |-> "esy.lock", kind |-> "dir"] \in d

HasMarker(d) ==
    \/ [name |-> "package.json", kind |-> "file"] \in d
    \/ [name |-> ".node-version", kind |-> "file"] \in d
    \/ [name |-> "index.js", kind |-> "file"] \in d
    \/ [name |-> "index.mjs", kind |-> "file"] \in d
    \/ [name |-> "index.cjs", kind |-> "file"] \in d
    \/ [name |-> "index.ts", kind |-> "file"] \in d
    \/ [name |-> "node_modules", kind |-> "dir"] \in d

Steps == {trace[k] : k \in 1..Len(trace)}
WorkSteps == {"exec", "exec_failed", "read_manifest", "check", "render", "warn"}
ScansAvailable == "scan_unavailable" \notin Steps

\* C1: in a directory with an esy.lock subdirectory fn module never goes past
\* the probe and returns None, whatever markers the directory also holds.
C1_ExclusionDominates ==
    HasEsyLock(dir) =>
        /\ pc \in {"scan_js", "scan_esy", "probe", "done"}
        /\ ~result.some
        /\ Steps \cap WorkSteps = {}

C1_Witness ==
    /\ pc = "done"
    /\ HasEsyLock(dir)
    /\ HasMarker(dir)
    /\ trace = <<"scan", "scan">>
    /\ ~result.some

\* C2 as claimed: without an esy.lock subdirectory, the probe is positive
\* exactly when the directory holds a marker: fn module goes past the probe
\* only with a marker, and with a marker it always runs the command.
C2_ProbeIffMarker ==
    ~HasEsyLock(dir) =>
        /\ (pc \notin {"scan_js", "scan_esy", "probe", "done"} => HasMarker(dir))
        /\ (Steps \cap WorkSteps # {} => HasMarker(dir))
        /\ (pc = "done" /\ ~HasMarker(dir) => ~result.some)
        /\ (pc = "done" /\ HasMarker(dir) => Steps \cap {"exec", "exec_failed"} # {})

\* C2 as amended: the same, for the evaluations in which both scans of the
\* directory are available.
C2_ProbeIffMarkerWhenScanned ==
    ~HasEsyLock(dir) =>
        /\ (pc \notin {"scan_js", "scan_esy", "probe", "done"} => HasMarker(dir))
        /\ (Steps \cap WorkSteps # {} => HasMarker(dir))
        /\ (pc = "done" /\ ~HasMarker(dir) => ~result.some)
        /\ (pc = "done" /\ HasMarker(dir) /\ ScansAvailable
                => Steps \cap {"exec", "exec_failed"} # {})

C2_Witness ==
    /\ pc = "done"
    /\ dir = {[name |-> "index.ts", kind |-> "file"],
              [name |-> "esy.lock", kind |-> "file"]}
    /\ "exec" \in Steps

\* C3: fn module always ends by returning a segment or None; it never panics.
C3_NeverPanics == pc # "panic"

\* C4: check_engines_version returns true for every version text when the
\* constraint is absent or does not parse as a range.
C4_FailOpenOnConstraint ==
    (/\ call.state = "ended"
     /\ (~call.engines.some \/ call.engines.val \in MalformedReqs))
        => call.out = Returned(TRUE)

C4_Witness ==
    /\ call.state = "ended"
    /\ call.engines.some
    /\ call.engines.val = ReqNoVersion
    /\ call.version = OutNoTriple
    /\ call.out = Returned(TRUE)

\* The texts digits.digits.digits, as the regular expression reads digits.
IsTripleText(t) ==
    \E a, b \in 1..Len(t) :
        /\ 1 < a /\ a + 1 < b /\ b < Len(t)
        /\ \A k \in 1..Len(t) :
              IF k = a \/ k = b THEN t[k] = "." ELSE t[k] \in RegexDigits

\* The three components of such a text.
Components(t) ==
    LET dots == {k \in 1..Len(t) : t[k] = "."}
        a == CHOOSE x \in dots : \A y \in dots : x <= y
        b == CHOOSE x \in dots : \A y \in dots : y <= x
    IN <<SubSeq(t, 1, a - 1), SubSeq(t, a + 1, b - 1), SubSeq(t, b + 1, Len(t))>>

\* A component is a number of a version: ASCII digits, no leading zero.
IsNumber(c) ==
    /\ \A k \in 1..Len(c) : c[k] \in AsciiDigits
    /\ (Len(c) > 1 => c[1] # "0")

ParsesAsVersion(t) == \A k \in 1..3 : IsNumber(Components(t)[k])

ValueOf(t) ==
    [k \in 1..3 |-> Decimal(Components(t)[k], 1, Len(Components(t)[k]) + 1, 0)]

\* Whether version v satisfies the parseable constraint c.
Satisfies(c, v) ==
    CASE c = ReqGe12 -> ~VersionLess(v, <<12, 0, 0>>)
      [] c = ReqLt12 -> VersionLess(v, <<12, 0, 0>>)
      [] c = ReqGe1 -> ~VersionLess(v, <<1, 0, 0>>)
      [] c = ReqLt1 -> VersionLess(v, <<1, 0, 0>>)
      [] c = ReqBetween -> ~VersionLess(v, <<0, 1, 0>>) /\ VersionLess(v, <<1, 0, 0>>)
      [] c = ReqCaret -> ~VersionLess(v, <<1, 0, 0>>) /\ VersionLess(v, <<2, 0, 0>>)
      [] c = ReqTilde -> ~VersionLess(v, <<1, 0, 0>>) /\ VersionLess(v, <<1, 1, 0>>)
      [] c = ReqExact -> v = <<1, 0, 1>>
      [] c = ReqStar -> TRUE
      [] c = ReqEmpty -> TRUE

\* The substrings s[i..j] of s that are triples (that parse as a version).
Triples(s) ==
    {p \in (1..Len(s)) \X (1..Len(s)) :
        p[1] <= p[2] /\ IsTripleText(SubSeq(s, p[1], p[2]))}
ParsingTriples(s) ==
    {p \in Triples(s) : ParsesAsVersion(SubSeq(s, p[1], p[2]))}

\* The first of a set of substrings: the leftmost, and the longest there.
FirstOf(ps) ==
    CHOOSE p \in ps :
        \A q \in ps : p[1] < q[1] \/ (p[1] = q[1] /\ p[2] >= q[2])

\* C5 as claimed: with a constraint that parses and a version text that holds
\* a triple that parses as a version, check_engines_version returns whether
\* the first such triple satisfies the range.
C5_FirstParsingTripleDecides ==
    (/\ call.state = "ended"
     /\ call.engines.some
     /\ call.engines.val \in ParseableReqs
     /\ ParsingTriples(call.version) # {})
        => LET p == FirstOf(ParsingTriples(call.version))
           IN call.out = Returned(Satisfies(call.engines.val,
                                            ValueOf(SubSeq(call.version, p[1], p[2]))))

\* C5 as amended: with a constraint that parses and a version text that holds
\* a triple, the first triple of the text decides: check_engines_version
\* returns whether it satisfies the range when it parses as a version, and
\* true when it does not, whatever triples come later or lie inside it.
C5_FirstTripleDecides ==
    (/\ call.state = "ended"
     /\ call.engines.some
     /\ call.engines.val \in ParseableReqs
     /\ Triples(call.version) # {})
        => LET p == FirstOf(Triples(call.version))
               t == SubSeq(call.version, p[1], p[2])
           IN call.out = Returned(IF ParsesAsVersion(t)
                                  THEN Satisfies(call.engines.val, ValueOf(t))
                                  ELSE TRUE)

C5_Witness ==
    /\ call.state = "ended"
    /\ call.version = <<"v", "1", "2", ".", "0", ".", "0", " ", "1", ".", "0", ".", "0">>
    /\ call.engines.some
    /\ call.engines.val = ReqLt12
    /\ call.out = Returned(FALSE)

\* The bindings of the style variable and of the version variable in segments.
StyleBindingsOf(style) ==
    {style[j].value : j \in {i \in 1..Len(style) : style[i].var = "style"}}
StyleBindings(segments) ==
    UNION {StyleBindingsOf(segments[k].style) : k \in 1..Len(segments)}
VersionBindings(segments) ==
    {segments[k].value : k \in {i \in 1..Len(segments) : segments[i].var = "version"}}

\* C6: in a rendered segment the style variable is bound to config.style when
\* check_engines_version gave true and to config.not_capable_style when it
\* gave false, and the version variable to the trimmed runtime version.
C6_StyleFollowsFlag ==
    result.some =>
        LET flag == check_engines_version(nodejs_version, engines_version).ret IN
        /\ StyleBindings(result.segments) \subseteq
              {IF flag THEN config.style ELSE config.not_capable_style}
        /\ config.style # config.not_capable_style
        /\ VersionBindings(result.segments) \subseteq {trim(nodejs_version)}

C6_Witness ==
    /\ result.some
    /\ ~in_engines_range
    /\ StyleBindings(result.segments) = {config.not_capable_style}
    /\ VersionBindings(result.segments) = {trim(nodejs_version)}
    /\ trim(nodejs_version) # nodejs_version

\* The manifests that declare no usable engines.node.
UnusableManifests ==
    {NoFile, NotJson, JsonFile(JArray), JsonFile(JObject(<<>>)),
     JsonFile(JObject(<<Member("engines", JString(ReqGe12))>>)),
     JsonFile(JObject(<<Member("engines", JObject(<<>>))>>)),
     JsonFile(JObject(<<Member("engines", JObject(<<Member("node", JNumber)>>))>>)),
     JsonFile(JObject(<<Member("engines", JObject(<<Member("node", JNull)>>))>>))}
BindableFormats == {FormatDefault, FormatPlain, FormatLiteralStyle}

\* C7: with package.json missing, not JSON, or without a string engines.node,
\* get_engines_version gives None without error, the flag is true, and the
\* segment renders (given the command's output and a bindable format) with
\* the compatible style.
C7_UnusableManifestRendersCompatible ==
    manifest \in UnusableManifests =>
        /\ pc # "panic"
        /\ ("read_manifest" \in Steps => ~engines_version.some)
        /\ ("check" \in Steps => in_engines_range)
        /\ (result.some => StyleBindings(result.segments) \subseteq {config.style})
        /\ (pc = "done" /\ "exec" \in Steps /\ config.format \in BindableFormats
                => result.some)

C7_Witness ==
    /\ pc = "done"
    /\ manifest = NotJson
    /\ nodejs_version = OutNoTriple
    /\ result.some
    /\ StyleBindings(result.segments) = {config.style}

C9_CommandFailureEndsQuietly ==
    "exec_failed" \in Steps =>
        /\ pc = "done"
        /\ ~result.some
        /\ Steps \cap {"read_manifest", "check", "render", "warn"} = {}
        /\ ~engines_version.some
        /\ ~parsed.ok

C9_Witness ==
    /\ "exec_failed" \in Steps
    /\ pc = "done"
    /\ manifest \in Manifests

\* The place of a step in the order command, manifest read, check, render.
Rank(step) ==
    CASE step \in {"scan", "scan_unavailable"} -> 0
      [] step \in {"exec", "exec_failed"} -> 1
      [] step = "read_manifest" -> 2
      [] step = "check" -> 3
      [] step = "render" -> 4
      [] step = "warn" -> 5

\* C10: the command, the manifest read, the check and the render happen only
\* after a positive probe (two available scans, a marker, no esy.lock folder),
\* never after a negative one, and in that order, none without the one before.
C10_ProbeGatesAndOrders ==
    /\ \A k \in 1..Len(trace) :
          trace[k] \in WorkSteps =>
              /\ k > 2
              /\ trace[1] = "scan" /\ trace[2] = "scan"
              /\ HasMarker(dir) /\ ~HasEsyLock(dir)
              /\ Rank(trace[k]) = Rank(trace[k - 1]) + 1
    /\ (pc \in {"exec", "engines", "check", "format", "segments", "panic"}
            => HasMarker(dir) /\ ~HasEsyLock(dir) /\ ScansAvailable)

C10_Witness ==
    /\ pc = "done"
    /\ result.some
    /\ trace = <<"scan", "scan", "exec", "read_manifest", "check", "render">>

====
